---------------------------- MODULE Spec2Model ----------------------------
(***************************************************************************)
(* Model of the followers/following harvest of src/scraper.js:             *)
(* getFollows(page, type), lines 197-334.                                  *)
(*                                                                         *)
(* One harvest is one call of getFollows.  Every `await` of the function   *)
(* is a step of the model; the synchronous code between two awaits is part *)
(* of the step that precedes it.  What the page shows (the link, the       *)
(* dialog, its divs, the scroll box, the anchors) is the input of the      *)
(* step that reads it and is chosen from small sets.                       *)
(*                                                                         *)
(* Encoding of page values                                                 *)
(*   href attribute : 0 = attribute absent or empty, -1 = an absolute      *)
(*                    link (does not start with "/"), i > 0 = the          *)
(*                    relative link "/user_i/"                             *)
(*   text content   : a sequence of character codes, 0 = a blank,          *)
(*                    c > 0 = a visible character                          *)
(*   list entry     : [username |-> trimmed text, url |-> Url(href)]       *)
(***************************************************************************)
EXTENDS Integers, Sequences, FiniteSets, TLC

VARIABLES
    pc,                \* position in getFollows
    env,               \* what the dialog of this run can render, and what is recorded of it
    dialogOpen,        \* page state: the followers/following dialog is open
    escapes,           \* number of page.keyboard.press('Escape') calls made
    scrollableIndex,   \* line 262 (-1 before the locator has run)
    allUsers,          \* line 204
    lastCount,         \* line 205
    sameCountTries,    \* line 206
    reachedEnd,        \* line 209
    noProgressTries,   \* line 210
    lastProgressCount, \* line 211
    lastScrollTop,     \* line 263
    scrollNoProgress,  \* line 264
    scrolled,          \* line 266, result of the scroll evaluation of this cycle
    atEnd,             \* line 289, result of the end check of this cycle
    exit,              \* which return statement ended the call
    result,            \* the returned list
    cycles,            \* history: number of cycles whose merge has run
    seen,              \* history: urls of all entries extracted so far
    prevUsers,         \* history: snapshot of the previous completed cycle
    identRun,          \* history: length of the current run of identical snapshots
    stillRun,          \* history: length of the current run of cycles whose scroll did not move
    maxRows,           \* history: largest row count of the snapshots of the completed cycles
    flatRun,           \* history: length of the current run of cycles that did not raise maxRows
    firstMax,          \* history: the earliest snapshot with the largest row count so far
    reported,          \* lines 242-245: the candidates written to the error log
    divsSeen,          \* history: the divs the locator's evaluation returned
    dialogDivs,        \* history: the divs of the dialog when the locator ran
    endObs,            \* history: what the last end check read from the page
    scenario,          \* history: number of cycles that followed the 30-entry scenario, -1 once left
    steps,             \* history: the steps of the current cycle, in the order they ran
    mainPc,            \* position in main / scrapeInstagram ("call": getFollows on its own)
    loggedIn,          \* main, line 527 ("unknown" before the login check)
    followers,         \* scrapeInstagram, line 87
    following,         \* scrapeInstagram, line 88
    outcomes,          \* history: the exits of the finished harvests of the run
    report,            \* the report file written by generateReport (<< >> if none)
    browserOpen,       \* the browser launched at line 504 is open
    abortRequested,    \* an external abort of the run has been requested
    warned,            \* main, line 531: the login warning has been written
    postLinks,         \* scrapeInstagram, line 91
    posts,             \* scrapeInstagram, line 98
    postIdx,           \* scrapeInstagram, line 99: the loop variable i
    navHistory,        \* page state: the session history of the tab (-1 = about:blank,
                       \* 0 = the profile page, k > 0 = the page of post link k);
                       \* << >> while there is no tab
    navPos,            \* page state: the position of the shown page in navHistory
    taggedLinks,       \* scrapeInstagram, line 150
    taggedPosts,       \* scrapeInstagram, line 140
    taggedIdx,         \* scrapeInstagram, line 155: the loop variable i
    friends,           \* scrapeFacebook, line 346
    platform           \* main, line 470 ("none" before the questions are answered)

vars == << pc, env, dialogOpen, escapes, scrollableIndex, allUsers, lastCount,
           sameCountTries, reachedEnd, noProgressTries, lastProgressCount,
           lastScrollTop, scrollNoProgress, scrolled, atEnd, exit,
           result, cycles, seen, prevUsers, identRun, stillRun, maxRows, flatRun,
           firstMax, reported, divsSeen, dialogDivs, endObs, scenario, steps, mainPc, loggedIn, followers,
           following, outcomes, report, browserOpen, abortRequested, warned,
           postLinks, posts, postIdx, navHistory, navPos, taggedLinks,
           taggedPosts, taggedIdx, friends, platform >>

-----------------------------------------------------------------------------
(* Program constants *)

maxTries == 60
maxUsers == 10000
noProgressLimit == 10
minClientHeight == 100
scrollStep == 5000
endTolerance == 2
postLimit == 10
taggedLimit == 10
facebookPostLimit == 10

(* Bounds of the model *)

MaxLen == 2
MaxOff == 1
MaxDivs == 2
NoScrollLimit == 5
LongLen == 6
ScenarioRows == 10
ScenarioCycles == 5
MaxRedirected == 1

-----------------------------------------------------------------------------
(* Helpers *)

Min(a, b) == IF a < b THEN a ELSE b
Max(a, b) == IF a > b THEN a ELSE b
Range(s) == { s[i] : i \in 1..Len(s) }


-----------------------------------------------------------------------------
(* Item extractor: the page function of lines 300-308 *)

RECURSIVE TrimLeft(_)
TrimLeft(t) == IF t # << >> /\ Head(t) = 0 THEN TrimLeft(Tail(t)) ELSE t

RECURSIVE TrimRight(_)
TrimRight(t) ==
    IF t # << >> /\ t[Len(t)] = 0 THEN TrimRight(SubSeq(t, 1, Len(t) - 1)) ELSE t

\* String.prototype.trim on a text content
Trim(t) == TrimRight(TrimLeft(t))

\* 'https://instagram.com' + a.getAttribute('href')
Url(h) == [origin |-> "https://instagram.com", path |-> h]

\* the filter of line 303: a.href && a.getAttribute('href').startsWith('/') && a.textContent
KeepAnchor(a) == a.href # 0 /\ a.href > 0 /\ a.text # << >>

\* the map of lines 304-307
ToUser(a) == [username |-> Trim(a.text), url |-> Url(a.href)]

ExtractUsers(anchors) ==
    LET kept == SelectSeq(anchors, KeepAnchor)
    IN  [ i \in 1..Len(kept) |-> ToUser(kept[i]) ]

\* identity keys (profile urls) of a list of entries
Urls(list) == { list[i].url : i \in 1..Len(list) }

-----------------------------------------------------------------------------
(* Scroll surface: the page functions of lines 216-237, 266-279, 289-299 *)

\* the predicate of line 225
IsScrollable(div) ==
    div.scrollHeight > div.clientHeight /\ div.clientHeight > minClientHeight

\* FindScrollableIndex that keeps the last match instead of the first
FindLastScrollableIndex(divs) ==
    IF \E i \in 1..Len(divs) : IsScrollable(divs[i])
    THEN (CHOOSE i \in 1..Len(divs) :
              IsScrollable(divs[i]) /\ \A j \in (i + 1)..Len(divs) : ~IsScrollable(divs[j])) - 1
    ELSE -1

\* allDivs.find(...) followed by allDivs.indexOf(scrollable): 0-based, -1 if none
FindScrollableIndex(divs) ==
    IF \E i \in 1..Len(divs) : IsScrollable(divs[i])
    THEN (CHOOSE i \in 1..Len(divs) :
              IsScrollable(divs[i]) /\ \A j \in 1..(i - 1) : ~IsScrollable(divs[j])) - 1
    ELSE -1

\* lines 218-236: the value page.evaluate resolves to
LocateInfo(dialogPresent, divs) ==
    IF ~dialogPresent
    THEN [found |-> FALSE, scrollableIndex |-> -1, candidates |-> << >>]
    ELSE [found |-> FindScrollableIndex(divs) >= 0,
          scrollableIndex |-> FindScrollableIndex(divs),
          candidates |-> divs]

\* scrollBox.scrollBy(0, 5000): the browser clamps the offset to the scrollable range
ScrollBy(box) ==
    Max(0, Min(box.scrollTop + scrollStep, box.scrollHeight - box.clientHeight))

\* lines 267-278: the value the scroll evaluation resolves to
ScrollInfo(dialogPresent, nDivs, index, box) ==
    IF dialogPresent /\ index < nDivs
    THEN [found |-> TRUE, before |-> box.scrollTop, after |-> ScrollBy(box),
          scrollHeight |-> box.scrollHeight]
    ELSE [found |-> FALSE, before |-> 0, after |-> 0, scrollHeight |-> 0]

\* AtEndInfo without the spinner test of line 296
AtEndIgnoringSpinner(dialogPresent, nDivs, index, spinner, box) ==
    IF dialogPresent /\ index < nDivs
    THEN box.scrollTop + box.clientHeight >= box.scrollHeight - endTolerance
    ELSE FALSE

\* lines 290-298: the value the end check resolves to
AtEndInfo(dialogPresent, nDivs, index, spinner, box) ==
    IF dialogPresent /\ index < nDivs
    THEN ~spinner /\ (box.scrollTop + box.clientHeight >= box.scrollHeight - endTolerance)
    ELSE FALSE

-----------------------------------------------------------------------------
(* Inputs: what the page can show *)

\* the row of the underlying list with number i: <a href="/user_i/">name_i</a>
Row(i) == [href |-> i, text |-> << i >>]

\* the n rows that follow row lo: the part of the list that is in the DOM
Window(lo, n) == [ i \in 1..n |-> Row(lo + i) ]

\* one more anchor in the dialog, after the rows
ExtraAnchors(lo, n, x) ==
    CASE x = "dup" /\ n > 0 -> << Row(lo + 1) >>
      [] x = "nohref"       -> << [href |-> 0, text |-> << lo + n + 1 >>] >>
      [] x = "external"     -> << [href |-> -1, text |-> << lo + n + 1 >>] >>
      [] x = "blank"        -> << [href |-> lo + n + 1, text |-> << 0 >>] >>
      [] x = "padded"       -> << [href |-> lo + n + 1, text |-> << 0, lo + n + 1, 0 >>] >>
      [] OTHER              -> << >>

Anchors(lo, n, x) == Window(lo, n) \o ExtraAnchors(lo, n, x)

ExtraKinds == {"none", "dup", "nohref", "external", "blank", "padded"}

\* geometries of the divs of a dialog
DivGeoms ==
    { [scrollHeight |-> 50,  clientHeight |-> 50],
      [scrollHeight |-> 150, clientHeight |-> 90],
      [scrollHeight |-> 300, clientHeight |-> 100],
      [scrollHeight |-> 900, clientHeight |-> 400] }

DivLists == UNION { [1..n -> DivGeoms] : n \in 0..MaxDivs }

\* states of the scroll box
Boxes ==
    { [scrollTop |-> 0,    clientHeight |-> 400, scrollHeight |-> 900],
      [scrollTop |-> 500,  clientHeight |-> 400, scrollHeight |-> 900],
      [scrollTop |-> 1,    clientHeight |-> 400, scrollHeight |-> 403] }

\* The dialog of a run: the row counts, first rows and extra anchors it can
\* render, and the histories that are recorded of the harvest.
EnvSmall == [rows |-> 0..MaxLen, offs |-> 0..MaxOff, extras |-> {"none", "dup"},
             watch |-> {"flat"}]
EnvUnion == [rows |-> 0..MaxLen, offs |-> 0..MaxOff, extras |-> {"none", "dup"},
             watch |-> {"seen"}]
EnvIdent == [rows |-> 0..MaxLen, offs |-> {0}, extras |-> {"none"},
             watch |-> {"flat", "ident"}]
EnvStill == [rows |-> 0..MaxLen, offs |-> {0}, extras |-> {"none", "dup"},
             watch |-> {"still"}]
EnvCap   == [rows |-> {0, 1, maxUsers, maxUsers + 1}, offs |-> {0}, extras |-> {"none"},
             watch |-> {}]
EnvLong  == [rows |-> 0..LongLen, offs |-> {0}, extras |-> {"none"},
             watch |-> {"cycles"}]

EnvBound == [rows |-> {0, 1, maxUsers}, offs |-> {0},
             extras |-> {"none"}, watch |-> {"cycles"}]

EnvLocate == [rows |-> 0..MaxLen, offs |-> {0}, extras |-> {"none"},
              watch |-> {"divs"}]
EnvEnd   == [rows |-> 0..MaxLen, offs |-> {0}, extras |-> {"none"},
             watch |-> {"end"}]
EnvOrder == [rows |-> 0..MaxLen, offs |-> {0}, extras |-> {"none", "dup"},
             watch |-> {"order"}]
EnvRows  == [rows |-> 0..MaxLen, offs |-> {0}, extras |-> ExtraKinds,
             watch |-> {}]
EnvRun   == [rows |-> {0, MaxLen}, offs |-> {0}, extras |-> {"none"},
             watch |-> {"divs"}]
EnvPosts == [rows |-> {0}, offs |-> {0}, extras |-> {"none"},
             watch |-> {"posts"}]
EnvBest  == [rows |-> 0..MaxLen, offs |-> 0..MaxOff, extras |-> {"none"},
             watch |-> {"best"}]
EnvTagged == [rows |-> {0}, offs |-> {0}, extras |-> {"none"},
              watch |-> {"tagged"}]
EnvAbort == [rows |-> 0..MaxLen, offs |-> {0}, extras |-> {"none"},
             watch |-> {}]
EnvScenario == [rows |-> {ScenarioRows},
                offs |-> {0, ScenarioRows, 2 * ScenarioRows},
                extras |-> {"none"}, watch |-> {"scenario"}]

\* The 30-entry scenario: cycle k shows ScenarioRows rows; the window moves on
\* by ScenarioRows rows after every second cycle (two cycles show the same
\* rows before new content loads, the rows shown before have left the DOM).
ScenarioLo(k) == ScenarioRows * ((k - 1) \div 2)

\* a history is recorded only in the runs that watch it
Watched(h, new, old) == IF h \in env.watch THEN new ELSE old


-----------------------------------------------------------------------------
(* getFollows *)

NoScroll == [found |-> FALSE, before |-> 0, after |-> 0, scrollHeight |-> 0]

NoReport == [logged |-> FALSE, candidates |-> << >>]

NoEndObs == [present |-> FALSE, spinner |-> FALSE,
             box |-> [scrollTop |-> 0, clientHeight |-> 0, scrollHeight |-> 0]]

\* the state in which getFollows is at position p and its caller at position m;
\* at "questions" main has just been called: no browser, no tab, no platform;
\* at any later position the profile page of an Instagram run is loaded;
\* at "postLinks" and "taggedTab" the login check has passed and both harvests
\* have returned for want of a link, at "taggedTab" the profile had no post
\* and the goBack of line 137 has left the profile page
InitAt(e, p, m) ==
    /\ pc = p
    /\ env = e
    /\ dialogOpen = FALSE
    /\ reported = NoReport
    /\ divsSeen = << >>
    /\ dialogDivs = << >>
    /\ endObs = NoEndObs
    /\ scenario = 0
    /\ steps = << >>
    /\ mainPc = m
    /\ loggedIn = IF m \in {"postLinks", "taggedTab"} THEN "yes" ELSE "unknown"
    /\ followers = << >>
    /\ following = << >>
    /\ outcomes = IF m \in {"postLinks", "taggedTab"} THEN << "noLink", "noLink" >>
                                                      ELSE << >>
    /\ report = << >>
    /\ browserOpen = (m # "questions")
    /\ abortRequested = FALSE
    /\ warned = FALSE
    /\ postLinks = << >>
    /\ posts = << >>
    /\ postIdx = 0
    /\ navHistory = IF m = "questions" THEN << >> ELSE << -1, 0 >>
    /\ navPos = IF m = "questions" THEN 0 ELSE IF m = "taggedTab" THEN 1 ELSE 2
    /\ taggedLinks = << >>
    /\ taggedPosts = << >>
    /\ taggedIdx = 0
    /\ friends = << >>
    /\ platform = IF m = "questions" THEN "none" ELSE "Instagram"
    /\ escapes = 0
    /\ scrollableIndex = -1
    /\ allUsers = << >>
    /\ lastCount = 0
    /\ sameCountTries = 0
    /\ reachedEnd = FALSE
    /\ noProgressTries = 0
    /\ lastProgressCount = 0
    /\ lastScrollTop = -1
    /\ scrollNoProgress = 0
    /\ scrolled = NoScroll
    /\ atEnd = FALSE
    /\ exit = "none"
    /\ result = << >>
    /\ cycles = 0
    /\ seen = {}
    /\ prevUsers = << >>
    /\ identRun = 0
    /\ stillRun = 0
    /\ maxRows = 0
    /\ flatRun = 0
    /\ firstMax = << >>

\* one call of getFollows on its own
InitWith(e) == InitAt(e, "start", "call")

Init == InitWith(EnvSmall)

\* LoopCondition without the size cap
LoopConditionNoCap(tries, list, ended) ==
    tries < maxTries /\ ~ended

\* LoopCondition with maxTries mistyped as 6
LoopConditionShortTries(tries, list, ended) ==
    tries < 6 /\ Len(list) < maxUsers /\ ~ended

\* the loop condition of line 265
LoopCondition(tries, list, ended) ==
    tries < maxTries /\ Len(list) < maxUsers /\ ~ended

\* where control goes when the loop condition is evaluated
LoopTest(tries, list, ended) ==
    IF LoopCondition(tries, list, ended) THEN "scroll" ELSE "closeLoop"

loopState == << allUsers, lastCount, sameCountTries, reachedEnd, noProgressTries,
                lastProgressCount, lastScrollTop, scrollNoProgress >>
cycleState == << scrolled, atEnd >>
history == << cycles, seen, prevUsers, identRun, stillRun, maxRows, flatRun,
              firstMax >>
history2 == << divsSeen, dialogDivs, endObs, scenario, steps >>
section == << postLinks, posts, postIdx, navHistory, navPos, taggedLinks,
             taggedPosts, taggedIdx, friends, platform >>
caller == << mainPc, loggedIn, followers, following, outcomes, report, browserOpen,
             abortRequested, warned, section >>

\* lines 280-289: where control goes after the scroll evaluation
AfterScroll(found) == IF found THEN "endCheck" ELSE "closeLost"

\* lines 198-199: the link is looked up; without a link the call returns []
FindLink ==
    /\ pc = "start"
    /\ \E throws \in BOOLEAN, linkFound \in BOOLEAN :
          IF throws
          THEN /\ pc' = "threw"
               /\ UNCHANGED << exit, result >>
          ELSE IF linkFound
               THEN /\ pc' = "click"
                    /\ UNCHANGED << exit, result >>
               ELSE /\ pc' = "returned"
                    /\ exit' = "noLink"
                    /\ result' = << >>
    /\ UNCHANGED << env, dialogOpen, escapes, scrollableIndex, loopState, cycleState,
                    history >>
    /\ UNCHANGED << reported, history2, caller >>

\* lines 200-201: the link is clicked; the click rejects when the link has
\* left the page since it was looked up
ClickLink ==
    /\ pc = "click"
    /\ \E throws \in BOOLEAN :
          IF throws
          THEN /\ pc' = "threw"
               /\ UNCHANGED dialogOpen
          ELSE /\ pc' = "waitDialog"
               /\ dialogOpen' = TRUE
    /\ UNCHANGED << env, escapes, scrollableIndex, loopState, cycleState, history,
                    exit, result >>
    /\ UNCHANGED << reported, history2, caller >>

\* lines 202-203: wait for the first entry anchor of the dialog, 60 s
WaitForSelector ==
    /\ pc = "waitDialog"
    /\ \E appeared \in BOOLEAN :
          pc' = IF appeared THEN "locate" ELSE "threw"
    /\ UNCHANGED << env, dialogOpen, escapes, scrollableIndex, loopState, cycleState,
                    exit, result, history >>
    /\ UNCHANGED << reported, history2, caller >>

\* lines 214-262 and the first test of line 265: the scroll surface is located
Locate ==
    /\ pc = "locate"
    /\ \E throws \in BOOLEAN, dialogPresent \in BOOLEAN, divs \in DivLists :
          LET scrollableInfo ==
                  IF throws
                  THEN [found |-> FALSE, scrollableIndex |-> -1, candidates |-> << >>]
                  ELSE LocateInfo(dialogPresent, divs)
          IN  /\ IF ~scrollableInfo.found
                 THEN /\ reported' = [logged |-> TRUE,
                                      candidates |-> scrollableInfo.candidates]
                      /\ pc' = "closeNotFound"
                      /\ UNCHANGED scrollableIndex
                 ELSE /\ scrollableIndex' = scrollableInfo.scrollableIndex
                      /\ pc' = LoopTest(sameCountTries, allUsers, reachedEnd)
                      /\ UNCHANGED reported
              /\ divsSeen' = Watched("divs",
                                 IF throws \/ ~dialogPresent THEN << >> ELSE divs,
                                 divsSeen)
              /\ dialogDivs' = Watched("divs",
                                   IF dialogPresent THEN divs ELSE << >>,
                                   dialogDivs)
    /\ UNCHANGED << env, dialogOpen, escapes, loopState, cycleState, exit, result,
                    history >>
    /\ UNCHANGED << endObs, scenario, steps, caller >>

\* line 258: the Escape key press; it is awaited outside any try/catch
CloseNotFound ==
    /\ pc = "closeNotFound"
    /\ \E throws \in BOOLEAN :
          IF throws
          THEN /\ pc' = "threw"
               /\ UNCHANGED << escapes, dialogOpen >>
          ELSE /\ escapes' = escapes + 1
               /\ dialogOpen' = FALSE
               /\ pc' = "delayNotFound"
    /\ UNCHANGED << env, scrollableIndex, loopState, cycleState, history, exit, result >>
    /\ UNCHANGED << reported, history2, caller >>

\* lines 259-260: the delay after the key press, and the return
ReturnNotFound ==
    /\ pc = "delayNotFound"
    /\ exit' = "notFound"
    /\ result' = << >>
    /\ pc' = "returned"
    /\ UNCHANGED << env, dialogOpen, escapes, scrollableIndex, loopState, cycleState,
                    history >>
    /\ UNCHANGED << reported, history2, caller >>

\* lines 266-287: the scroll command and the settle delay
Scroll ==
    /\ pc = "scroll"
    /\ \E throws \in BOOLEAN, dialogPresent \in BOOLEAN, nDivs \in 0..MaxDivs,
          box \in Boxes :
          IF throws
          THEN /\ pc' = "threw"
               /\ UNCHANGED << scrolled, stillRun, steps >>
          ELSE LET info == ScrollInfo(dialogPresent, nDivs, scrollableIndex, box)
               IN  /\ scrolled' = info
                   /\ pc' = AfterScroll(info.found)
                   /\ stillRun' = Watched("still",
                                      IF ~info.found THEN stillRun
                                      ELSE IF info.after = info.before
                                           THEN Min(stillRun + 1, NoScrollLimit + 1)
                                           ELSE 0,
                                      stillRun)
                   /\ steps' = Watched("order",
                                   IF info.found THEN << "scroll", "settle" >>
                                                 ELSE << "scroll" >>,
                                   steps)
    /\ UNCHANGED << env, dialogOpen, escapes, scrollableIndex, loopState, atEnd, exit,
                    result, cycles, seen, prevUsers, identRun, maxRows, flatRun,
                    firstMax >>
    /\ UNCHANGED << reported, divsSeen, dialogDivs, endObs, scenario, caller >>

\* line 282: the Escape key press; it is awaited outside any try/catch
CloseLost ==
    /\ pc = "closeLost"
    /\ \E throws \in BOOLEAN :
          IF throws
          THEN /\ pc' = "threw"
               /\ UNCHANGED << escapes, dialogOpen >>
          ELSE /\ escapes' = escapes + 1
               /\ dialogOpen' = FALSE
               /\ pc' = "delayLost"
    /\ UNCHANGED << env, scrollableIndex, loopState, cycleState, history, exit, result >>
    /\ UNCHANGED << reported, history2, caller >>

\* lines 283-284: the delay after the key press, and the return
ReturnLost ==
    /\ pc = "delayLost"
    /\ exit' = "surfaceLost"
    /\ result' = allUsers
    /\ pc' = "returned"
    /\ UNCHANGED << env, dialogOpen, escapes, scrollableIndex, loopState, cycleState,
                    history >>
    /\ UNCHANGED << reported, history2, caller >>

\* lines 289-299: the end check
EndCheck ==
    /\ pc = "endCheck"
    /\ \E throws \in BOOLEAN, dialogPresent \in BOOLEAN, nDivs \in 0..MaxDivs,
          spinner \in BOOLEAN, box \in Boxes :
          IF throws
          THEN /\ pc' = "threw"
               /\ UNCHANGED << atEnd, endObs, steps >>
          ELSE /\ atEnd' = AtEndInfo(dialogPresent, nDivs, scrollableIndex, spinner, box)
               /\ pc' = "extract"
               /\ endObs' = Watched("end",
                                [present |-> dialogPresent /\ scrollableIndex < nDivs,
                                 spinner |-> spinner, box |-> box],
                                endObs)
               /\ steps' = Watched("order", Append(steps, "endCheck"), steps)
    /\ UNCHANGED << env, dialogOpen, escapes, scrollableIndex, loopState, scrolled,
                    exit, result, history >>
    /\ UNCHANGED << reported, divsSeen, dialogDivs, scenario, caller >>

\* Merge with the test of line 309 written `!==`: a shorter snapshot replaces the list
MergeIfDifferent(snapshot) ==
    IF Len(snapshot) # lastCount
    THEN /\ lastCount' = Len(snapshot)
         /\ sameCountTries' = 0
         /\ allUsers' = snapshot
         /\ IF Len(snapshot) > lastProgressCount
            THEN /\ lastProgressCount' = Len(snapshot)
                 /\ noProgressTries' = 0
            ELSE UNCHANGED << lastProgressCount, noProgressTries >>
    ELSE /\ sameCountTries' = sameCountTries + 1
         /\ noProgressTries' = noProgressTries + 1
         /\ UNCHANGED << lastCount, allUsers, lastProgressCount >>

\* Merge with the tests of lines 309 and 313 written `>=`: an equal row count is progress
MergeOnEqual(snapshot) ==
    IF Len(snapshot) >= lastCount
    THEN /\ lastCount' = Len(snapshot)
         /\ sameCountTries' = 0
         /\ allUsers' = snapshot
         /\ IF Len(snapshot) >= lastProgressCount
            THEN /\ lastProgressCount' = Len(snapshot)
                 /\ noProgressTries' = 0
            ELSE UNCHANGED << lastProgressCount, noProgressTries >>
    ELSE /\ sameCountTries' = sameCountTries + 1
         /\ noProgressTries' = noProgressTries + 1
         /\ UNCHANGED << lastCount, allUsers, lastProgressCount >>

\* Merge without the reset of line 315: progress leaves noProgressTries as it is
MergeKeepsStallCount(snapshot) ==
    IF Len(snapshot) > lastCount
    THEN /\ lastCount' = Len(snapshot)
         /\ sameCountTries' = 0
         /\ allUsers' = snapshot
         /\ IF Len(snapshot) > lastProgressCount
            THEN /\ lastProgressCount' = Len(snapshot)
                 /\ UNCHANGED noProgressTries
            ELSE UNCHANGED << lastProgressCount, noProgressTries >>
    ELSE /\ sameCountTries' = sameCountTries + 1
         /\ noProgressTries' = noProgressTries + 1
         /\ UNCHANGED << lastCount, allUsers, lastProgressCount >>

\* Merge that also takes a snapshot of equal row count as the list
MergeLatestMax(snapshot) ==
    IF Len(snapshot) > lastCount
    THEN /\ lastCount' = Len(snapshot)
         /\ sameCountTries' = 0
         /\ allUsers' = snapshot
         /\ IF Len(snapshot) > lastProgressCount
            THEN /\ lastProgressCount' = Len(snapshot)
                 /\ noProgressTries' = 0
            ELSE UNCHANGED << lastProgressCount, noProgressTries >>
    ELSE /\ sameCountTries' = sameCountTries + 1
         /\ noProgressTries' = noProgressTries + 1
         /\ allUsers' = IF Len(snapshot) = lastCount THEN snapshot ELSE allUsers
         /\ UNCHANGED << lastCount, lastProgressCount >>

\* lines 309-320: the snapshot replaces the list when it has more rows
Merge(snapshot) ==
    IF Len(snapshot) > lastCount
    THEN /\ lastCount' = Len(snapshot)
         /\ sameCountTries' = 0
         /\ allUsers' = snapshot
         /\ IF Len(snapshot) > lastProgressCount
            THEN /\ lastProgressCount' = Len(snapshot)
                 /\ noProgressTries' = 0
            ELSE UNCHANGED << lastProgressCount, noProgressTries >>
    ELSE /\ sameCountTries' = sameCountTries + 1
         /\ noProgressTries' = noProgressTries + 1
         /\ UNCHANGED << lastCount, allUsers, lastProgressCount >>

\* lines 300-329 and the next test of line 265: extraction, merge, evaluation
Extract ==
    /\ pc = "extract"
    /\ \E throws \in BOOLEAN, lo \in env.offs, n \in env.rows, x \in env.extras :
          IF throws
          THEN /\ pc' = "threw"
               /\ UNCHANGED << loopState, cycleState, history, scenario, steps >>
          ELSE LET snapshot == ExtractUsers(Anchors(lo, n, x))
               IN  /\ Merge(snapshot)
                   /\ reachedEnd' = (reachedEnd \/ atEnd)
                   /\ pc' = IF noProgressTries' >= noProgressLimit
                            THEN "closeStall"
                            ELSE LoopTest(sameCountTries', allUsers', reachedEnd')
                   /\ scrolled' = NoScroll
                   /\ atEnd' = FALSE
                   /\ cycles' = Watched("cycles", cycles + 1, cycles)
                   /\ seen' = Watched("seen", seen \cup Urls(snapshot), seen)
                   /\ prevUsers' = Watched("ident", snapshot, prevUsers)
                   /\ identRun' = Watched("ident",
                                      IF identRun > 0 /\ snapshot = prevUsers
                                      THEN Min(identRun + 1, noProgressLimit + 1)
                                      ELSE 1,
                                      identRun)
                   /\ maxRows' = Watched("flat", Max(maxRows, Len(snapshot)), maxRows)
                   /\ flatRun' = Watched("flat",
                                     IF Len(snapshot) > maxRows
                                     THEN 0
                                     ELSE Min(flatRun + 1, noProgressLimit + 1),
                                     flatRun)
                   /\ firstMax' = Watched("best",
                                      IF Len(snapshot) > Len(firstMax)
                                      THEN snapshot
                                      ELSE firstMax,
                                      firstMax)
                   /\ scenario' = Watched("scenario",
                                      IF /\ scenario >= 0
                                         /\ scenario < ScenarioCycles
                                         /\ lo = ScenarioLo(scenario + 1)
                                         /\ n = ScenarioRows
                                         /\ atEnd = (scenario + 1 = ScenarioCycles)
                                      THEN scenario + 1
                                      ELSE -1,
                                      scenario)
                   /\ steps' = Watched("order",
                                   steps \o << "extract", "merge", "evaluate" >>,
                                   steps)
                   /\ UNCHANGED << lastScrollTop, scrollNoProgress, stillRun >>
    /\ UNCHANGED << env, dialogOpen, escapes, scrollableIndex, exit, result >>
    /\ UNCHANGED << reported, divsSeen, dialogDivs, endObs, caller >>

\* line 326: the Escape key press; it is awaited outside any try/catch
CloseStall ==
    /\ pc = "closeStall"
    /\ \E throws \in BOOLEAN :
          IF throws
          THEN /\ pc' = "threw"
               /\ UNCHANGED << escapes, dialogOpen >>
          ELSE /\ escapes' = escapes + 1
               /\ dialogOpen' = FALSE
               /\ pc' = "delayStall"
    /\ UNCHANGED << env, scrollableIndex, loopState, cycleState, history, exit, result >>
    /\ UNCHANGED << reported, history2, caller >>

\* lines 327-328: the delay after the key press, and the return
ReturnStall ==
    /\ pc = "delayStall"
    /\ exit' = "noProgress"
    /\ result' = allUsers
    /\ pc' = "returned"
    /\ UNCHANGED << env, dialogOpen, escapes, scrollableIndex, loopState, cycleState,
                    history >>
    /\ UNCHANGED << reported, history2, caller >>

\* CloseLoop without the key press of line 331
CloseLoopNoEscape ==
    /\ pc = "closeLoop"
    /\ pc' = "delayLoop"
    /\ UNCHANGED << env, dialogOpen, escapes, scrollableIndex, loopState, cycleState,
                    history, exit, result >>
    /\ UNCHANGED << reported, history2, caller >>

\* line 331: the Escape key press; it is awaited outside any try/catch
CloseLoop ==
    /\ pc = "closeLoop"
    /\ \E throws \in BOOLEAN :
          IF throws
          THEN /\ pc' = "threw"
               /\ UNCHANGED << escapes, dialogOpen >>
          ELSE /\ escapes' = escapes + 1
               /\ dialogOpen' = FALSE
               /\ pc' = "delayLoop"
    /\ UNCHANGED << env, scrollableIndex, loopState, cycleState, history, exit, result >>
    /\ UNCHANGED << reported, history2, caller >>

\* lines 332-333: the delay after the key press, and the return
ReturnLoop ==
    /\ pc = "delayLoop"
    /\ exit' = "loopEnd"
    /\ result' = allUsers
    /\ pc' = "returned"
    /\ UNCHANGED << env, dialogOpen, escapes, scrollableIndex, loopState, cycleState,
                    history >>
    /\ UNCHANGED << reported, history2, caller >>

Next ==
    \/ FindLink
    \/ ClickLink
    \/ WaitForSelector
    \/ Locate
    \/ CloseNotFound
    \/ ReturnNotFound
    \/ Scroll
    \/ CloseLost
    \/ ReturnLost
    \/ EndCheck
    \/ Extract
    \/ CloseStall
    \/ ReturnStall
    \/ CloseLoop
    \/ ReturnLoop

Spec == Init /\ [][Next]_vars

-----------------------------------------------------------------------------
(* main and scrapeInstagram: the run around the two harvests *)

callState == << pc, dialogOpen, escapes, scrollableIndex, loopState, cycleState,
                exit, result, history, reported, history2 >>

\* a new call frame of getFollows at position p; the page keeps its state
FreshCall(p) ==
    /\ pc' = p
    /\ escapes' = 0
    /\ scrollableIndex' = -1
    /\ allUsers' = << >>
    /\ lastCount' = 0
    /\ sameCountTries' = 0
    /\ reachedEnd' = FALSE
    /\ noProgressTries' = 0
    /\ lastProgressCount' = 0
    /\ lastScrollTop' = -1
    /\ scrollNoProgress' = 0
    /\ scrolled' = NoScroll
    /\ atEnd' = FALSE
    /\ exit' = "none"
    /\ result' = << >>
    /\ cycles' = 0
    /\ seen' = {}
    /\ prevUsers' = << >>
    /\ identRun' = 0
    /\ stillRun' = 0
    /\ maxRows' = 0
    /\ flatRun' = 0
    /\ firstMax' = << >>
    /\ reported' = NoReport
    /\ divsSeen' = << >>
    /\ dialogDivs' = << >>
    /\ endObs' = NoEndObs
    /\ scenario' = 0
    /\ steps' = << >>
    /\ UNCHANGED dialogOpen

\* what the finished call of getFollows was ended by
TerminalOutcome ==
    IF exit = "loopEnd"
    THEN IF reachedEnd THEN "reachedEnd"
         ELSE IF Len(allUsers) >= maxUsers THEN "sizeCap"
         ELSE "maxTries"
    ELSE IF exit = "noProgress" /\ reachedEnd THEN "noProgressAtEnd"
    ELSE exit

\* page.goto: the page shown is a new entry after the current one
Navigate(h, pos, page) == Append(SubSeq(h, 1, pos), page)

\* the page of a tagged post
TaggedPage == postLimit + 3

\* the page a redirected post link ends on
RedirectPage == postLimit + 4

\* the pages the tab can show after a goto to a post link has been committed:
\* the page of the link or, for the first MaxRedirected links, another post page
Landings(link) ==
    {link} \cup (IF link <= MaxRedirected THEN {RedirectPage} ELSE {})

\* main, lines 469-484: the questions are answered, the file names chosen
GetQuestions ==
    /\ mainPc = "questions"
    /\ \E throws \in BOOLEAN, answer \in {"Instagram", "Facebook"} :
          IF throws
          THEN /\ mainPc' = "crashed"
               /\ UNCHANGED platform
          ELSE /\ platform' = answer
               /\ mainPc' = "readCookies"
    /\ UNCHANGED << env, callState, loggedIn, followers, following, outcomes, report,
                    browserOpen, abortRequested, warned, postLinks, posts, postIdx,
                    navHistory, navPos, taggedLinks, taggedPosts, taggedIdx, friends >>

\* main, lines 486-492: the cookies file is read; without it main returns
ReadCookies ==
    /\ mainPc = "readCookies"
    /\ \E fileRead \in BOOLEAN :
          mainPc' = IF fileRead THEN "readUserAgent" ELSE "done"
    /\ UNCHANGED << env, callState, loggedIn, followers, following, outcomes, report,
                    browserOpen, abortRequested, warned, postLinks, posts, postIdx,
                    navHistory, navPos, taggedLinks, taggedPosts, taggedIdx, friends,
                    platform >>

\* main, lines 494-502: the user agent file is read; without it main returns
ReadUserAgent ==
    /\ mainPc = "readUserAgent"
    /\ \E fileRead \in BOOLEAN :
          mainPc' = IF fileRead THEN "launch" ELSE "done"
    /\ UNCHANGED << env, callState, loggedIn, followers, following, outcomes, report,
                    browserOpen, abortRequested, warned, postLinks, posts, postIdx,
                    navHistory, navPos, taggedLinks, taggedPosts, taggedIdx, friends,
                    platform >>

\* main, line 504: the browser is launched
Launch ==
    /\ mainPc = "launch"
    /\ \E throws \in BOOLEAN :
          IF throws
          THEN /\ mainPc' = "crashed"
               /\ UNCHANGED browserOpen
          ELSE /\ browserOpen' = TRUE
               /\ mainPc' = "newPage"
    /\ UNCHANGED << env, callState, loggedIn, followers, following, outcomes, report,
                    abortRequested, warned, postLinks, posts, postIdx, navHistory,
                    navPos, taggedLinks, taggedPosts, taggedIdx, friends, platform >>

\* main, line 505: a tab is opened, it shows about:blank
NewPage ==
    /\ mainPc = "newPage"
    /\ \E throws \in BOOLEAN :
          IF throws
          THEN /\ mainPc' = "crashed"
               /\ UNCHANGED << navHistory, navPos >>
          ELSE /\ navHistory' = << -1 >>
               /\ navPos' = 1
               /\ mainPc' = "setupPage"
    /\ UNCHANGED << env, callState, loggedIn, followers, following, outcomes, report,
                    browserOpen, abortRequested, warned, postLinks, posts, postIdx,
                    taggedLinks, taggedPosts, taggedIdx, friends, platform >>

\* main, lines 508-521: viewport, timezone, headers and cookies of the tab
SetupPage ==
    /\ mainPc = "setupPage"
    /\ \E throws \in BOOLEAN :
          mainPc' = IF throws THEN "crashed" ELSE "gotoProfile"
    /\ UNCHANGED << env, callState, loggedIn, followers, following, outcomes, report,
                    browserOpen, abortRequested, warned, postLinks, posts, postIdx,
                    navHistory, navPos, taggedLinks, taggedPosts, taggedIdx, friends,
                    platform >>

\* main, lines 523-524: the profile page is loaded; a goto that rejects may
\* reject before or after the tab has moved to the page
GotoProfile ==
    /\ mainPc = "gotoProfile"
    /\ \E outcome \in {"ok", "failedBefore", "failedAfter"} :
          /\ IF outcome = "failedBefore"
             THEN UNCHANGED << navHistory, navPos >>
             ELSE /\ navHistory' = Navigate(navHistory, navPos, 0)
                  /\ navPos' = navPos + 1
          /\ mainPc' = IF outcome = "ok" THEN "loginCheck" ELSE "crashed"
    /\ UNCHANGED << env, callState, loggedIn, followers, following, outcomes, report,
                    browserOpen, abortRequested, warned, postLinks, posts, postIdx,
                    taggedLinks, taggedPosts, taggedIdx, friends, platform >>

\* main, lines 527-531 and 536-541: the login check is evaluated; a failed
\* check is warned of, a passed one goes on to the scraper of the platform
LoginCheck ==
    /\ mainPc = "loginCheck"
    /\ \E throws \in BOOLEAN, ok \in BOOLEAN :
          IF throws
          THEN /\ mainPc' = "crashed"
               /\ UNCHANGED << loggedIn, warned >>
          ELSE IF ~ok
               THEN /\ loggedIn' = "no"
                    /\ warned' = TRUE
                    /\ mainPc' = "closeAfterWarning"
               ELSE /\ loggedIn' = "yes"
                    /\ mainPc' = IF platform = "Instagram" THEN "profileInfo"
                                                            ELSE "facebook"
                    /\ UNCHANGED warned
    /\ UNCHANGED << env, callState, followers, following, outcomes, report, browserOpen,
                    abortRequested, postLinks, posts, postIdx, navHistory, navPos,
                    taggedLinks, taggedPosts, taggedIdx, friends, platform >>

\* main, lines 532-533: browser.close() after the warning, and the return;
\* the close is awaited outside any try/catch
CloseAfterWarning ==
    /\ mainPc = "closeAfterWarning"
    /\ \E throws \in BOOLEAN :
          IF throws
          THEN /\ mainPc' = "crashed"
               /\ UNCHANGED browserOpen
          ELSE /\ browserOpen' = FALSE
               /\ mainPc' = "done"
    /\ UNCHANGED << env, callState, loggedIn, followers, following, outcomes, report,
                    abortRequested, warned, postLinks, posts, postIdx, navHistory,
                    navPos, taggedLinks, taggedPosts, taggedIdx, friends, platform >>

\* scrapeInstagram, lines 56-81: the profile info is evaluated
ProfileInfo ==
    /\ mainPc = "profileInfo"
    /\ \E throws \in BOOLEAN :
          mainPc' = IF throws THEN "crashed" ELSE "userId"
    /\ UNCHANGED << env, callState, loggedIn, followers, following, outcomes, report,
                    browserOpen, abortRequested, warned, postLinks, posts, postIdx,
                    navHistory, navPos, taggedLinks, taggedPosts, taggedIdx, friends,
                    platform >>

\* scrapeInstagram, lines 83-87: the user id is evaluated, getFollows is called
UserId ==
    /\ mainPc = "userId"
    /\ \E throws \in BOOLEAN :
          IF throws
          THEN /\ mainPc' = "crashed"
               /\ UNCHANGED callState
          ELSE /\ mainPc' = "followers"
               /\ FreshCall("start")
    /\ UNCHANGED << env, loggedIn, followers, following, outcomes, report, browserOpen,
                    abortRequested, warned, postLinks, posts, postIdx, navHistory,
                    navPos, taggedLinks, taggedPosts, taggedIdx, friends, platform >>

\* scrapeInstagram, lines 87-88: the followers harvest returns, following is called
ReturnFollowers ==
    /\ mainPc = "followers"
    /\ pc = "returned"
    /\ followers' = result
    /\ outcomes' = Append(outcomes, TerminalOutcome)
    /\ mainPc' = "following"
    /\ FreshCall("start")
    /\ UNCHANGED << env, loggedIn, following, report, browserOpen, abortRequested,
                    warned, postLinks, posts, postIdx, navHistory, navPos, taggedLinks,
                    taggedPosts, taggedIdx, friends, platform >>

\* scrapeInstagram, line 88: the following harvest returns
ReturnFollowing ==
    /\ mainPc = "following"
    /\ pc = "returned"
    /\ following' = result
    /\ outcomes' = Append(outcomes, TerminalOutcome)
    /\ mainPc' = "postLinks"
    /\ FreshCall("idle")
    /\ UNCHANGED << env, loggedIn, followers, report, browserOpen, abortRequested,
                    warned, postLinks, posts, postIdx, navHistory, navPos, taggedLinks,
                    taggedPosts, taggedIdx, friends, platform >>

\* lines 87-88, 538, 619: an exception of getFollows is caught nowhere
Propagate ==
    /\ mainPc \in {"followers", "following"}
    /\ pc = "threw"
    /\ outcomes' = Append(outcomes, "threw")
    /\ mainPc' = "crashed"
    /\ UNCHANGED << env, callState, loggedIn, followers, following, report, browserOpen,
                    abortRequested, warned, postLinks, posts, postIdx, navHistory,
                    navPos, taggedLinks, taggedPosts, taggedIdx, friends, platform >>

\* line 95: an href that matches /\/p\//
IsPostLink(href) == href > 0

\* line 95: slice(0, 10)
FirstLinks(s) == SubSeq(s, 1, Min(Len(s), postLimit))

\* the anchors 1..n of a grid of n posts
Grid(n) == [i \in 1..n |-> i]

\* the grids of the profile page: hrefs of `article a`, 0 = not a post link
PostGrids ==
    IF "posts" \in env.watch
    THEN {<< >>, << 0, 1, 0, 2 >>, Grid(postLimit), Grid(postLimit + 2)}
    ELSE {<< >>, << 0, 1, 2 >>}

\* the loop test of line 99
PostLoopTest(i, links) == IF i < Len(links) THEN "gotoPost" ELSE "goBack"

\* lines 103-129: the data extracted from the page the tab shows;
\* postLink is window.location.href (line 104)
PostData(location) == [postLink |-> location, caption |-> "caption"]

\* line 133: the placeholder of a post that could not be extracted
PostError(link) == [postLink |-> link, caption |-> "Error extracting post"]

\* CatchPost that gives up the loop at the first post that fails
CatchPostStops(link) ==
    /\ posts' = Append(posts, PostError(link))
    /\ postIdx' = postIdx + 1
    /\ mainPc' = "goBack"

\* lines 131-134 and the next test of line 99: the catch of the loop body
CatchPost(link) ==
    /\ posts' = Append(posts, PostError(link))
    /\ postIdx' = postIdx + 1
    /\ mainPc' = PostLoopTest(postIdx', postLinks)

\* scrapeInstagram, lines 91-99: the post links of the profile grid
PostLinks ==
    /\ mainPc = "postLinks"
    /\ \E throws \in BOOLEAN, grid \in PostGrids :
          IF throws
          THEN /\ mainPc' = "crashed"
               /\ UNCHANGED << postLinks, posts, postIdx >>
          ELSE LET links == FirstLinks(SelectSeq(grid, IsPostLink))
               IN  /\ postLinks' = links
                   /\ posts' = << >>
                   /\ postIdx' = 0
                   /\ mainPc' = PostLoopTest(0, links)
    /\ UNCHANGED << env, callState, loggedIn, followers, following, outcomes, report,
                    browserOpen, abortRequested, warned, navHistory, navPos,
                    taggedLinks, taggedPosts, taggedIdx, friends, platform >>

\* scrapeInstagram, line 101 (and the catch): the page of the post is opened.
\* A goto that rejects may reject before or after the tab has moved.
GotoPost ==
    /\ mainPc = "gotoPost"
    /\ \E outcome \in {"ok", "failedBefore", "failedAfter"} :
          LET link == postLinks[postIdx + 1]
          IN  /\ IF outcome = "failedBefore"
                 THEN UNCHANGED << navHistory, navPos >>
                 ELSE \E landed \in Landings(link) :
                         /\ navHistory' = Navigate(navHistory, navPos, landed)
                         /\ navPos' = navPos + 1
              /\ IF outcome = "ok"
                 THEN /\ mainPc' = "waitArticle"
                      /\ UNCHANGED << posts, postIdx >>
                 ELSE CatchPost(link)
    /\ UNCHANGED << env, callState, loggedIn, followers, following, outcomes, report,
                    browserOpen, abortRequested, warned, postLinks, taggedLinks,
                    taggedPosts, taggedIdx, friends, platform >>

\* scrapeInstagram, line 102 (and the catch): wait for the article, 15 s
WaitArticle ==
    /\ mainPc = "waitArticle"
    /\ \E appeared \in BOOLEAN :
          IF appeared
          THEN /\ mainPc' = "evalPost"
               /\ UNCHANGED << posts, postIdx >>
          ELSE CatchPost(postLinks[postIdx + 1])
    /\ UNCHANGED << env, callState, loggedIn, followers, following, outcomes, report,
                    browserOpen, abortRequested, warned, postLinks, navHistory, navPos,
                    taggedLinks, taggedPosts, taggedIdx, friends, platform >>

\* scrapeInstagram, lines 103-129 (and the catch): the post is extracted
\* and appended
EvalPost ==
    /\ mainPc = "evalPost"
    /\ \E throws \in BOOLEAN :
          IF throws
          THEN CatchPost(postLinks[postIdx + 1])
          ELSE /\ posts' = Append(posts, PostData(navHistory[navPos]))
               /\ mainPc' = "delayPost"
               /\ UNCHANGED postIdx
    /\ UNCHANGED << env, callState, loggedIn, followers, following, outcomes, report,
                    browserOpen, abortRequested, warned, postLinks, navHistory, navPos,
                    taggedLinks, taggedPosts, taggedIdx, friends, platform >>

\* scrapeInstagram, line 130 and the i++ and test of line 99: the delay after
\* the record was appended (a timer, it does not reject)
DelayPost ==
    /\ mainPc = "delayPost"
    /\ postIdx' = postIdx + 1
    /\ mainPc' = PostLoopTest(postIdx', postLinks)
    /\ UNCHANGED << env, callState, loggedIn, followers, following, outcomes, report,
                    browserOpen, abortRequested, warned, postLinks, posts, navHistory,
                    navPos, taggedLinks, taggedPosts, taggedIdx, friends, platform >>

\* scrapeInstagram, lines 137-138: page.goBack, one entry of the session history
GoBack ==
    /\ mainPc = "goBack"
    /\ \E throws \in BOOLEAN :
          IF throws
          THEN /\ mainPc' = "crashed"
               /\ UNCHANGED navPos
          ELSE /\ navPos' = Max(navPos - 1, 1)
               /\ mainPc' = "taggedTab"
    /\ UNCHANGED << env, callState, loggedIn, followers, following, outcomes, report,
                    browserOpen, abortRequested, warned, postLinks, posts, postIdx,
                    navHistory, taggedLinks, taggedPosts, taggedIdx, friends, platform
                    >>

\* the numbers of tagged post links the tagged tab can show
TaggedCounts ==
    IF "tagged" \in env.watch THEN {0, 1, taggedLimit + 2} ELSE {0, 2}

\* the loop test of line 155
TaggedLoopTest(i, links) ==
    IF i < Min(Len(links), taggedLimit) THEN "gotoTagged" ELSE "report"

\* lines 186-188 and the next test of line 155: the catch of the loop body
CatchTagged ==
    /\ taggedPosts' = Append(taggedPosts, PostError(taggedLinks[taggedIdx + 1]))
    /\ taggedIdx' = taggedIdx + 1
    /\ mainPc' = TaggedLoopTest(taggedIdx', taggedLinks)

\* scrapeInstagram, lines 143-148: the tagged tab is clicked; a rejection is
\* caught at line 190 and scrapeInstagram returns
TaggedTab ==
    /\ mainPc = "taggedTab"
    /\ \E throws \in BOOLEAN :
          mainPc' = IF throws THEN "report" ELSE "waitTagged"
    /\ UNCHANGED << env, callState, loggedIn, followers, following, outcomes, report,
                    browserOpen, abortRequested, warned, postLinks, posts, postIdx,
                    navHistory, navPos, taggedLinks, taggedPosts, taggedIdx, friends,
                    platform >>

\* scrapeInstagram, lines 149 and 190: wait for the tagged grid, 10 s
WaitTagged ==
    /\ mainPc = "waitTagged"
    /\ \E appeared \in BOOLEAN :
          mainPc' = IF appeared THEN "taggedLinks" ELSE "report"
    /\ UNCHANGED << env, callState, loggedIn, followers, following, outcomes, report,
                    browserOpen, abortRequested, warned, postLinks, posts, postIdx,
                    navHistory, navPos, taggedLinks, taggedPosts, taggedIdx, friends,
                    platform >>

\* scrapeInstagram, lines 150-155 and 190: the tagged post links
TaggedLinks ==
    /\ mainPc = "taggedLinks"
    /\ \E throws \in BOOLEAN, n \in TaggedCounts :
          IF throws
          THEN /\ mainPc' = "report"
               /\ UNCHANGED << taggedLinks, taggedIdx >>
          ELSE LET links == [i \in 1..n |-> TaggedPage]
               IN  /\ taggedLinks' = links
                   /\ taggedIdx' = 0
                   /\ mainPc' = TaggedLoopTest(0, links)
    /\ UNCHANGED << env, callState, loggedIn, followers, following, outcomes, report,
                    browserOpen, abortRequested, warned, postLinks, posts, postIdx,
                    navHistory, navPos, taggedPosts, friends, platform >>

\* scrapeInstagram, lines 157-158 (and the catch of 186): the page of the
\* tagged post is opened
GotoTagged ==
    /\ mainPc = "gotoTagged"
    /\ \E outcome \in {"ok", "failedBefore", "failedAfter"} :
          /\ IF outcome = "failedBefore"
             THEN UNCHANGED << navHistory, navPos >>
             ELSE /\ navHistory' = Navigate(navHistory, navPos, taggedLinks[taggedIdx + 1])
                  /\ navPos' = navPos + 1
          /\ IF outcome = "ok"
             THEN /\ mainPc' = "waitTaggedArticle"
                  /\ UNCHANGED << taggedPosts, taggedIdx >>
             ELSE CatchTagged
    /\ UNCHANGED << env, callState, loggedIn, followers, following, outcomes, report,
                    browserOpen, abortRequested, warned, postLinks, posts, postIdx,
                    taggedLinks, friends, platform >>

\* scrapeInstagram, line 159 (and the catch of 186): wait for the article
WaitTaggedArticle ==
    /\ mainPc = "waitTaggedArticle"
    /\ \E appeared \in BOOLEAN :
          IF appeared
          THEN /\ mainPc' = "evalTagged"
               /\ UNCHANGED << taggedPosts, taggedIdx >>
          ELSE CatchTagged
    /\ UNCHANGED << env, callState, loggedIn, followers, following, outcomes, report,
                    browserOpen, abortRequested, warned, postLinks, posts, postIdx,
                    navHistory, navPos, taggedLinks, friends, platform >>

\* scrapeInstagram, lines 160-185 (and the catch of 186): the tagged post is
\* extracted and appended
EvalTagged ==
    /\ mainPc = "evalTagged"
    /\ \E throws \in BOOLEAN :
          IF throws
          THEN CatchTagged
          ELSE /\ taggedPosts' = Append(taggedPosts, PostData(navHistory[navPos]))
               /\ taggedIdx' = taggedIdx + 1
               /\ mainPc' = TaggedLoopTest(taggedIdx', taggedLinks)
    /\ UNCHANGED << env, callState, loggedIn, followers, following, outcomes, report,
                    browserOpen, abortRequested, warned, postLinks, posts, postIdx,
                    navHistory, navPos, taggedLinks, friends, platform >>

\* getFriends, lines 377-387: n entries of the friends page
FriendList(n) == [i \in 1..n |-> [username |-> << i >>, url |-> i]]

\* scrapeFacebook, lines 349-361: n posts on the page, at most 10 are taken;
\* the records have no postLink (0)
FacebookPosts(n) ==
    [i \in 1..Min(n, facebookPostLimit) |-> [postLink |-> 0, caption |-> "caption"]]

\* scrapeFacebook, lines 337-343: the user id is evaluated
ScrapeFacebook ==
    /\ mainPc = "facebook"
    /\ \E throws \in BOOLEAN :
          mainPc' = IF throws THEN "crashed" ELSE "findFriends"
    /\ UNCHANGED << env, callState, loggedIn, followers, following, outcomes, report,
                    browserOpen, abortRequested, warned, postLinks, posts, postIdx,
                    navHistory, navPos, taggedLinks, taggedPosts, taggedIdx, friends,
                    platform >>

\* getFriends, lines 368-369: the friends link is looked up; without a link
\* the list is empty
FindFriendsLink ==
    /\ mainPc = "findFriends"
    /\ \E throws \in BOOLEAN, linkFound \in BOOLEAN :
          IF throws
          THEN /\ mainPc' = "crashed"
               /\ UNCHANGED friends
          ELSE IF linkFound
               THEN /\ mainPc' = "clickFriends"
                    /\ UNCHANGED friends
               ELSE /\ friends' = << >>
                    /\ mainPc' = "facebookPosts"
    /\ UNCHANGED << env, callState, loggedIn, followers, following, outcomes, report,
                    browserOpen, abortRequested, warned, postLinks, posts, postIdx,
                    navHistory, navPos, taggedLinks, taggedPosts, taggedIdx, platform >>

\* getFriends, line 371: the friends link is clicked
ClickFriends ==
    /\ mainPc = "clickFriends"
    /\ \E throws \in BOOLEAN :
          mainPc' = IF throws THEN "crashed" ELSE "waitFriends"
    /\ UNCHANGED << env, callState, loggedIn, followers, following, outcomes, report,
                    browserOpen, abortRequested, warned, postLinks, posts, postIdx,
                    navHistory, navPos, taggedLinks, taggedPosts, taggedIdx, friends,
                    platform >>

\* getFriends, lines 374-375: wait for the friends page
WaitFriends ==
    /\ mainPc = "waitFriends"
    /\ \E throws \in BOOLEAN :
          mainPc' = IF throws THEN "crashed" ELSE "listFriends"
    /\ UNCHANGED << env, callState, loggedIn, followers, following, outcomes, report,
                    browserOpen, abortRequested, warned, postLinks, posts, postIdx,
                    navHistory, navPos, taggedLinks, taggedPosts, taggedIdx, friends,
                    platform >>

\* getFriends, lines 377-389: the friends are read
ListFriends ==
    /\ mainPc = "listFriends"
    /\ \E throws \in BOOLEAN, n \in {0, 2} :
          IF throws
          THEN /\ mainPc' = "crashed"
               /\ UNCHANGED friends
          ELSE /\ friends' = FriendList(n)
               /\ mainPc' = "facebookPosts"
    /\ UNCHANGED << env, callState, loggedIn, followers, following, outcomes, report,
                    browserOpen, abortRequested, warned, postLinks, posts, postIdx,
                    navHistory, navPos, taggedLinks, taggedPosts, taggedIdx, platform >>

\* scrapeFacebook, lines 349-363: the posts of the page are read
ReadFacebookPosts ==
    /\ mainPc = "facebookPosts"
    /\ \E throws \in BOOLEAN, n \in {0, 2, facebookPostLimit + 2} :
          IF throws
          THEN /\ mainPc' = "crashed"
               /\ UNCHANGED posts
          ELSE /\ posts' = FacebookPosts(n)
               /\ mainPc' = "report"
    /\ UNCHANGED << env, callState, loggedIn, followers, following, outcomes, report,
                    browserOpen, abortRequested, warned, postLinks, postIdx, navHistory,
                    navPos, taggedLinks, taggedPosts, taggedIdx, friends, platform >>

\* main, lines 543-563: the report is written
GenerateReport ==
    /\ mainPc = "report"
    /\ \E throws \in BOOLEAN :
          IF throws
          THEN /\ mainPc' = "crashed"
               /\ UNCHANGED report
          ELSE /\ report' = << [followers |-> followers, following |-> following,
                                friends |-> friends, posts |-> posts,
                                taggedPosts |-> taggedPosts] >>
               /\ mainPc' = "closeBrowser"
    /\ UNCHANGED << env, callState, loggedIn, followers, following, outcomes,
                    browserOpen, abortRequested, warned, postLinks, posts, postIdx,
                    navHistory, navPos, taggedLinks, taggedPosts, taggedIdx, friends,
                    platform >>

\* main, lines 565-567: browser.close() is awaited outside any try/catch
CloseBrowser ==
    /\ mainPc = "closeBrowser"
    /\ \E throws \in BOOLEAN :
          IF throws
          THEN /\ mainPc' = "crashed"
               /\ UNCHANGED browserOpen
          ELSE /\ browserOpen' = FALSE
               /\ mainPc' = "done"
    /\ UNCHANGED << env, callState, loggedIn, followers, following, outcomes, report,
                    abortRequested, warned, postLinks, posts, postIdx, navHistory,
                    navPos, taggedLinks, taggedPosts, taggedIdx, friends, platform >>

NextRun ==
    \/ Next
    \/ GetQuestions
    \/ ReadCookies
    \/ ReadUserAgent
    \/ Launch
    \/ NewPage
    \/ SetupPage
    \/ GotoProfile
    \/ LoginCheck
    \/ CloseAfterWarning
    \/ ProfileInfo
    \/ UserId
    \/ ReturnFollowers
    \/ ReturnFollowing
    \/ Propagate
    \/ PostLinks
    \/ GotoPost
    \/ WaitArticle
    \/ EvalPost
    \/ DelayPost
    \/ GoBack
    \/ TaggedTab
    \/ WaitTagged
    \/ TaggedLinks
    \/ GotoTagged
    \/ WaitTaggedArticle
    \/ EvalTagged
    \/ ScrapeFacebook
    \/ FindFriendsLink
    \/ ClickFriends
    \/ WaitFriends
    \/ ListFriends
    \/ ReadFacebookPosts
    \/ GenerateReport
    \/ CloseBrowser

\* a run of main from its call at line 619
InitRun == InitAt(EnvRun, "idle", "questions")
SpecRun == InitRun /\ [][NextRun]_vars

\* An external abort of the run is requested while a harvest is running.
\* Nothing in getFollows reads the request.
RequestAbort ==
    /\ ~abortRequested
    /\ pc \notin {"returned", "threw"}
    /\ abortRequested' = TRUE
    /\ UNCHANGED << env, callState, mainPc, loggedIn, followers, following,
                    outcomes, report, browserOpen, warned, section >>

NextAbort ==
    \/ Next
    \/ RequestAbort

\* one call of getFollows during which an abort can be requested
InitAbort == InitWith(EnvAbort)
SpecAbort == InitAbort /\ [][NextAbort]_vars

\* the posts part of scrapeInstagram, up to the goBack of line 137
NextPosts ==
    \/ PostLinks
    \/ GotoPost
    \/ WaitArticle
    \/ EvalPost
    \/ DelayPost
    \/ GoBack

\* scrapeInstagram after the two harvests have returned
InitPosts == InitAt(EnvPosts, "idle", "postLinks")
SpecPosts == InitPosts /\ [][NextPosts]_vars

\* the tagged posts part of scrapeInstagram and the end of main
NextTagged ==
    \/ TaggedTab
    \/ WaitTagged
    \/ TaggedLinks
    \/ GotoTagged
    \/ WaitTaggedArticle
    \/ EvalTagged
    \/ GenerateReport
    \/ CloseBrowser

\* scrapeInstagram after the goBack of line 137
InitTagged == InitAt(EnvTagged, "idle", "taggedTab")
SpecTagged == InitTagged /\ [][NextTagged]_vars

\* one call of getFollows, the earliest largest snapshot recorded
InitBest == InitWith(EnvBest)
SpecBest == InitBest /\ [][Next]_vars

\* harvests of which the union of the extracted entries is recorded
InitUnion == InitWith(EnvUnion)
SpecUnion == InitUnion /\ [][Next]_vars

\* harvests of which the runs of identical snapshots are recorded
InitIdent == InitWith(EnvIdent)
SpecIdent == InitIdent /\ [][Next]_vars

\* harvests of which the runs of cycles without scroll movement are recorded
InitStill == InitWith(EnvStill)
SpecStill == InitStill /\ [][Next]_vars

\* harvests of a dialog that can render more rows than the size cap
InitCap == InitWith(EnvCap)
SpecCap == InitCap /\ [][Next]_vars

\* harvests of which the divs seen by the locator are recorded
InitLocate == InitWith(EnvLocate)
SpecLocate == InitLocate /\ [][Next]_vars

\* harvests of which the observation of the end check is recorded
InitEnd == InitWith(EnvEnd)
SpecEnd == InitEnd /\ [][Next]_vars

\* harvests of which the order of the steps of a cycle is recorded
InitOrder == InitWith(EnvOrder)
SpecOrder == InitOrder /\ [][Next]_vars

\* harvests of a dialog that also renders malformed anchors
InitRows == InitWith(EnvRows)
SpecRows == InitRows /\ [][Next]_vars

\* harvests of a virtualized dialog that shows ScenarioRows rows at a time
InitScenario == InitWith(EnvScenario)
SpecScenario == InitScenario /\ [][Next]_vars

\* harvests of a dialog whose row count grows one row at a time
InitLong == InitWith(EnvLong)
SpecLong == InitLong /\ [][Next]_vars

\* harvests of a dialog whose row count reaches the size cap
InitBound == InitWith(EnvBound)
SpecBound == InitBound /\ [][Next]_vars


-----------------------------------------------------------------------------
(* Properties *)

\* the call has returned a list after the scroll loop was entered
Harvested == pc = "returned" /\ exit \in {"surfaceLost", "noProgress", "loopEnd"}

\* the loop is between two cycles, or has just left its last cycle
CycleDone == pc \in {"scroll", "closeStall", "closeLoop"} /\ flatRun + maxRows > 0

\* C1: the entries getFollows returns are the union, keyed by profile url, of
\* all snapshots extracted during the harvest.
C1_ReturnsUnion == Harvested => Urls(result) = seen

\* C2: the returned list never holds two entries with the same profile url.
C2_NoDuplicateKeys ==
    pc = "returned" =>
        \A i, j \in 1..Len(result) : result[i].url = result[j].url => i = j

\* C3: an entry of the accumulated list stays in the accumulated list in every
\* later step: no cycle removes or replaces it.
C3_EntriesKept == [][Range(allUsers) \subseteq Range(allUsers')]_vars

\* C4: the number of accumulated entries never decreases from one cycle to
\* the next.
C4_SizeMonotone == [][Len(allUsers') >= Len(allUsers)]_vars

\* C4 witness: a second or later cycle has run on a non-empty list without
\* adding to it.
C4_Witness == pc = "scroll" /\ Len(allUsers) > 0 /\ flatRun > 0

\* C5: the number of cycles of a harvest never exceeds the fixed ceiling
\* (maxTries), whatever the stall counters, the size cap and the end signal do.
C5_CycleCeiling == cycles <= maxTries

\* C6 (as claimed): when the same snapshot has been extracted in N = 10
\* consecutive cycles, and neither the end of content nor the size cap has
\* occurred, the harvest has ended as a no-progress stall.
C6_StallAtNIdentical ==
    (/\ identRun >= noProgressLimit
     /\ pc \in {"scroll", "closeStall", "closeLoop"}
     /\ ~reachedEnd
     /\ Len(allUsers) < maxUsers)
        => pc = "closeStall"

\* C6 (amended): the harvest ends as a no-progress stall exactly at the 10th
\* consecutive cycle whose snapshot has no more rows than the largest snapshot
\* of the earlier cycles: not earlier, not later, and the counter of the code
\* is the length of that run.
C6_StallAtFlatRun ==
    /\ flatRun <= noProgressLimit
    /\ noProgressTries = flatRun
    /\ (pc \in {"closeStall", "delayStall"} \/ exit = "noProgress") =>
          flatRun >= noProgressLimit
    /\ flatRun >= noProgressLimit =>
          /\ pc \in {"closeStall", "delayStall", "returned", "threw"}
          /\ pc = "returned" => exit = "noProgress"

\* C6 witness: a harvest of a non-empty list has ended as a no-progress stall
\* after a run of 10 identical snapshots.
C6_Witness ==
    /\ pc = "returned" /\ exit = "noProgress"
    /\ flatRun = noProgressLimit /\ identRun >= noProgressLimit
    /\ Len(result) > 0

\* C7: when the scroll offset has not changed in M = 5 consecutive cycles the
\* harvest has terminated: no further cycle starts.
C7_StallAtNoScroll == ~(pc = "scroll" /\ stillRun >= NoScrollLimit)

\* C8: the returned list never has more entries than the size cap.
C8_CapRespected == pc = "returned" => Len(result) <= maxUsers

\* C9: a harvest in whose last cycle the end of content was observed ends as
\* ReachedEnd (the loop exit), not as a no-progress stall.
C9_EndBeforeStall ==
    (pc \in {"closeStall", "delayStall"} \/ exit = "noProgress") => ~reachedEnd

\* C10: on every return of a harvest whose dialog was opened, the Escape key
\* has been pressed and the dialog is closed.
C10_EscapeBeforeReturn ==
    (pc = "returned" /\ exit # "noLink") =>
        (/\ exit \in {"notFound", "surfaceLost", "noProgress", "loopEnd"}
         /\ escapes = 1
         /\ ~dialogOpen)

\* C10 witness: a harvest that stopped at the size cap has returned.
C10_Witness ==
    /\ pc = "returned" /\ exit = "loopEnd"
    /\ ~reachedEnd /\ Len(result) >= maxUsers
    /\ escapes = 1


\* C11: a page evaluation that fails inside the scroll loop does not end the
\* harvest by an exception.
C11_CycleErrorContained == pc = "threw" => scrollableIndex < 0

\* C14 (as claimed): a harvest that located the scroll surface returns its
\* list only after the end of the list has been observed.
C14_ReturnsOnlyAtEnd == Harvested => reachedEnd

\* C14 (amended): a harvest that located the scroll surface returns its list
\* only after the end of the list has been observed, or the list has reached
\* maxUsers rows, or 10 consecutive cycles brought no larger snapshot, or the
\* scroll surface could no longer be resolved.
C14_ReturnsAtEndOrStop ==
    Harvested =>
        \/ reachedEnd
        \/ Len(result) >= maxUsers
        \/ exit = "noProgress" /\ noProgressTries >= noProgressLimit
        \/ exit = "surfaceLost"

\* C14 witness: a harvest has returned a non-empty list after the end of the
\* list was observed.
C14_Witness ==
    pc = "returned" /\ exit = "loopEnd" /\ reachedEnd /\ Len(result) > 0

\* the height-overflow predicate of the claim
Overflows(d) == d.scrollHeight > d.clientHeight /\ d.clientHeight > 100

\* the locator of lines 214-240 has run in this call (the wait of line 202 is
\* the only step that can fail before the locator has chosen an index)
LocatorHasRun ==
    /\ pc \notin {"start", "click", "waitDialog", "locate"}
    /\ exit # "noLink"
    /\ ~(pc = "threw" /\ scrollableIndex < 0)

\* C15 (as claimed): the located surface is the first div of the dialog, in
\* document order, whose content height exceeds its visible height and whose
\* visible height exceeds 100; the locator reports "not found" exactly when no
\* div of the dialog satisfies the predicate.
C15_FirstOverflowingDiv ==
    /\ scrollableIndex >= 0 =>
          /\ scrollableIndex < Len(dialogDivs)
          /\ Overflows(dialogDivs[scrollableIndex + 1])
          /\ \A j \in 1..scrollableIndex : ~Overflows(dialogDivs[j])
    /\ (pc \in {"closeNotFound", "delayNotFound"} \/ exit = "notFound") <=>
          (/\ LocatorHasRun
           /\ \A j \in 1..Len(dialogDivs) : ~Overflows(dialogDivs[j]))

\* the locator's evaluation threw (lines 238-240): it returned no div although
\* the dialog has divs
LocatorFailed == divsSeen # dialogDivs

\* C15 (amended): the located surface is the first div of the dialog, in
\* document order, that satisfies the predicate; the locator reports "not
\* found" exactly when no div of the dialog satisfies the predicate or its
\* page evaluation threw.
C15_FirstOverflowingOrFailed ==
    /\ scrollableIndex >= 0 =>
          /\ ~LocatorFailed
          /\ scrollableIndex < Len(dialogDivs)
          /\ Overflows(dialogDivs[scrollableIndex + 1])
          /\ \A j \in 1..scrollableIndex : ~Overflows(dialogDivs[j])
    /\ (pc \in {"closeNotFound", "delayNotFound"} \/ exit = "notFound") <=>
          (/\ LocatorHasRun
           /\ \/ LocatorFailed
              \/ \A j \in 1..Len(dialogDivs) : ~Overflows(dialogDivs[j]))

\* C15 witness: the second div of the dialog was chosen, the first one
\* overflows but is not higher than the threshold.
C15_Witness ==
    /\ scrollableIndex = 1
    /\ dialogDivs[1].scrollHeight > dialogDivs[1].clientHeight
    /\ pc = "scroll"

\* what the end check read satisfies the end condition, with the margin m
EndObserved(m) ==
    /\ endObs.present
    /\ ~endObs.spinner
    /\ endObs.box.scrollTop + endObs.box.clientHeight >= endObs.box.scrollHeight - m

\* C16 (as claimed): reachedEnd becomes true in a cycle only if its end check
\* saw no loading indicator and offset + visible height >= content height;
\* once true it stays true.
C16_ReachedEndExact ==
    [][/\ (~reachedEnd /\ reachedEnd') => EndObserved(0)
       /\ reachedEnd => reachedEnd']_vars

\* C16 (amended): reachedEnd becomes true in a cycle only if its end check
\* saw no loading indicator and offset + visible height >= content height - 2;
\* once true it stays true.
C16_ReachedEndTolerant ==
    [][/\ (~reachedEnd /\ reachedEnd') => EndObserved(endTolerance)
       /\ reachedEnd => reachedEnd']_vars

\* C16 witness: reachedEnd is true after an end check that read an offset
\* one pixel short of the end of the content.
C16_Witness ==
    /\ reachedEnd
    /\ endObs.box.scrollTop + endObs.box.clientHeight < endObs.box.scrollHeight

\* C17: in the scenario (30 entries, 10 at a time over 5 cycles, each window
\* shown twice before the next one loads, end of content in cycle 5) the
\* harvest ends at the loop exit with reachedEnd and returns all 30 entries in
\* first-seen order.
C17_ScenarioReturnsAll ==
    (scenario = ScenarioCycles /\ pc = "returned") =>
        /\ exit = "loopEnd"
        /\ reachedEnd
        /\ result = ExtractUsers(Window(0, 3 * ScenarioRows))

\* C18: no entry with an empty display name is ever in the accumulated list.
C18_NoEmptyNames ==
    \A i \in 1..Len(allUsers) : allUsers[i].username # << >>

IsPrefix(s, t) == Len(s) <= Len(t) /\ s = SubSeq(t, 1, Len(s))

\* the order of the steps of one cycle in the claim
ClaimedOrder == << "scroll", "settle", "extract", "merge", "endCheck", "evaluate" >>

\* C19: the steps of a cycle run in the order scroll, settle,
\* extraction, merge, end-of-content check and evaluation.
C19_ClaimedOrder == [][IsPrefix(steps', ClaimedOrder)]_vars


\* C12: a harvest whose locator finds no scroll surface (or fails) does not
\* throw, writes the candidates to the error log, returns the empty list, and
\* the run goes on with the next list and then the posts.
C12_NotFoundRecoverable ==
    [][/\ pc = "locate" => pc' # "threw"
       /\ pc = "closeNotFound" =>
             /\ reported.logged /\ reported.candidates = divsSeen
             /\ pc' = "delayNotFound"
       /\ pc = "delayNotFound" =>
             (pc' = "returned" /\ exit' = "notFound" /\ result' = << >>)
       /\ (pc = "returned" /\ exit = "notFound" /\ mainPc = "followers") =>
             (mainPc' = "following" /\ pc' = "start" /\ followers' = << >>)
       /\ (pc = "returned" /\ exit = "notFound" /\ mainPc = "following") =>
             (mainPc' = "postLinks" /\ following' = << >>)]_vars

\* C13: a run that passed the login check and has ended has written a report.
C13_ReportWritten ==
    (mainPc \in {"done", "crashed"} /\ loggedIn = "yes") => report # << >>

\* C20: when an abort has been requested by the time the loop condition is
\* evaluated, no further cycle starts.
C20_AbortObserved ==
    [][(abortRequested /\ pc \in {"locate", "extract"}) => pc' # "scroll"]_vars


\* C21: in a run whose login check failed, the warning is written, no
\* harvest, no post visit and no report happens, and the run ends with the
\* browser closed.
C21_LoginFailedStopsRun ==
    loggedIn = "no" =>
        /\ warned
        /\ pc = "idle" /\ ~dialogOpen /\ outcomes = << >>
        /\ followers = << >> /\ following = << >>
        /\ postLinks = << >> /\ posts = << >>
        /\ report = << >>
        /\ mainPc \in {"closeAfterWarning", "done"}
        /\ mainPc = "done" => ~browserOpen

\* C22: what getFollows hands to its caller tells a harvest ended by a stall
\* or by the size cap from a harvest that reached the end of the list.
C22_OutcomeIdentified ==
    (/\ Len(outcomes) = 2
     /\ outcomes[1] \in {"noProgress", "sizeCap"}
     /\ outcomes[2] = "reachedEnd") => followers # following

\* C23: a cycle whose extraction holds a url not extracted before resets the
\* no-progress counter and leaves that url in the list.
C23_NewKeyIsProgress ==
    [][(pc = "extract" /\ pc' # "threw" /\ seen' # seen) =>
          (noProgressTries' = 0 /\ (seen' \ seen) \subseteq Urls(allUsers'))]_vars

\* C24: at most postLimit links are taken, the loop appends one record per
\* visited link in link order, data or placeholder (during the delay of line
\* 130 the record of the link being visited is already appended), and goes
\* through all links.
C24_OneRecordPerLink ==
    /\ Len(postLinks) <= postLimit
    /\ postLinks = Grid(Len(postLinks))
    /\ Len(posts) = IF mainPc = "delayPost" THEN postIdx + 1 ELSE postIdx
    /\ Len(posts) <= Len(postLinks)
    /\ \A i \in 1..Len(posts) :
          \E page \in Landings(postLinks[i]) :
             posts[i] \in {PostData(page), PostError(postLinks[i])}
    /\ mainPc \in {"gotoPost", "waitArticle", "evalPost", "delayPost"} =>
          postIdx < Len(postLinks)
    /\ mainPc \in {"goBack", "taggedTab", "waitTagged", "taggedLinks", "gotoTagged",
                   "waitTaggedArticle", "evalTagged", "report", "closeBrowser",
                   "done"} =>
          Len(posts) = Len(postLinks)

\* C24 witness: a loop over postLimit links in which the first post was
\* redirected, the third failed and the fourth was extracted.
C24_Witness ==
    /\ mainPc = "taggedTab"
    /\ Len(posts) = postLimit
    /\ posts[1] = PostData(RedirectPage)
    /\ posts[3] = PostError(3)
    /\ posts[4] = PostData(4)

\* C25: after the goBack that follows the post loop the tab shows the profile page.
C25_BackOnProfile == mainPc = "taggedTab" => navHistory[navPos] = 0

\* C26: when main has finished, by a return or by an exception, the browser
\* it launched (if it launched one) is closed.
C26_BrowserClosed == mainPc \in {"done", "crashed"} => ~browserOpen

\* C27: the two stall counters are equal, the two row-count marks equal the
\* length of the list, and the loop is never left because of maxTries.
C27_CountersCoincide ==
    /\ sameCountTries = noProgressTries
    /\ lastCount = lastProgressCount
    /\ lastCount = Len(allUsers)
    /\ sameCountTries <= noProgressLimit
    /\ pc = "closeLoop" => sameCountTries < maxTries

\* C27 witness: a harvest with entries that ended by the stall rule.
C27_Witness ==
    /\ pc = "returned" /\ exit = "noProgress"
    /\ sameCountTries = noProgressLimit
    /\ Len(result) > 0

\* C28: the number of completed cycles is at most noProgressLimit times the
\* length of the list plus the stall counter, and a cycle runs only while the
\* list is below maxUsers and the stall counter below noProgressLimit, so that
\* no harvest has more than noProgressLimit * maxUsers cycles.
C28_CycleBound ==
    /\ cycles <= noProgressLimit * Len(allUsers) + noProgressTries
    /\ noProgressTries <= noProgressLimit
    /\ pc \in {"scroll", "endCheck", "extract"} =>
          (Len(allUsers) < maxUsers /\ noProgressTries < noProgressLimit)
    /\ cycles <= noProgressLimit * maxUsers

\* C28 witness: a harvest that ended at the size cap after as many cycles as
\* the stall rule allows: one row, then maxUsers rows, each gain preceded by
\* noProgressLimit - 1 cycles without gain.
C28_Witness ==
    /\ pc = "returned" /\ exit = "loopEnd"
    /\ Len(result) = maxUsers
    /\ cycles = noProgressLimit * 2

\* C29: a harvest that located the scroll surface returns the earliest
\* snapshot whose row count is the largest of all its completed cycles.
C29_ReturnsFirstMax ==
    (pc = "returned" /\ scrollableIndex >= 0) => result = firstMax

\* C29 witness: a harvest returned MaxLen entries after a stall, so that
\* later snapshots of the same row count were not taken.
C29_Witness ==
    /\ pc = "returned" /\ exit = "noProgress"
    /\ scrollableIndex >= 0
    /\ Len(result) = MaxLen
    /\ result = ExtractUsers(Anchors(MaxOff, MaxLen, "none"))

\* C30: when the scroll step cannot resolve the scroll surface, no counter
\* and no list changes, Escape is pressed once, and the list accumulated
\* before is returned with no end check and no extraction in between.
C30_SurfaceLostReturns ==
    [][/\ (pc = "scroll" /\ pc' = "closeLost") =>
             UNCHANGED << loopState, atEnd, escapes, dialogOpen >>
       /\ pc = "closeLost" =>
             /\ pc' = "delayLost"
             /\ escapes' = escapes + 1
             /\ ~dialogOpen'
             /\ UNCHANGED loopState
       /\ pc = "delayLost" =>
             /\ pc' = "returned"
             /\ result' = allUsers
             /\ UNCHANGED loopState]_vars

=============================================================================
